---- MODULE Spec2Model ----
(***************************************************************************)
(* Authentication and session-token subsystem of the task tracker:         *)
(* register, login, the HMAC token codec of the auth middleware and the    *)
(* protected-procedure middleware; and the task handlers behind it.        *)
(*                                                                         *)
(* Text is modelled as a sequence of one-character strings, so that        *)
(* split('.'), slice(7), base64 and JSON work on characters.  Digests      *)
(* (HMAC-SHA256, SHA-256, PBKDF2) are opaque: one element that stands for  *)
(* the digest's characters and is determined by, and determines, the       *)
(* digest's inputs (no collisions).                                        *)
(***************************************************************************)
EXTENDS Integers, Sequences, FiniteSets, TLC

VARIABLES
    users,      \* rows of usersTable, in insertion order
    nextId,     \* the serial sequence behind usersTable.id
    jwtSecret,  \* process.env['JWT_SECRET']; "" when not configured
    nowMs,      \* Date.now()
    held,       \* the token the client keeps (localStorage 'auth_token')
    res,        \* outcome of the last operation
    calls,      \* the calls in flight: where each one is in its handler
    tasks,      \* rows of tasksTable, in insertion order
    taskSeq     \* the serial sequence behind tasksTable.id

vars == <<users, nextId, jwtSecret, nowMs, held, res, calls, tasks, taskSeq>>

----------------------------------------------------------------------------
(* Characters and bytes *)

Ascii ==
    <<" ", "!", "\"", "#", "$", "%", "&", "'", "(", ")", "*", "+", ",", "-", ".", "/",
      "0", "1", "2", "3", "4", "5", "6", "7", "8", "9", ":", ";", "<", "=", ">", "?",
      "@", "A", "B", "C", "D", "E", "F", "G", "H", "I", "J", "K", "L", "M", "N", "O",
      "P", "Q", "R", "S", "T", "U", "V", "W", "X", "Y", "Z", "[", "\\", "]", "^", "_",
      "<grave>", "a", "b", "c", "d", "e", "f", "g", "h", "i", "j", "k", "l", "m", "n", "o",
      "p", "q", "r", "s", "t", "u", "v", "w", "x", "y", "z", "{", "|", "}", "~">>

\* the character a byte outside printable ASCII decodes to (U+FFFD or a control)
BadChar == "<?>"

\* String.indexOf, counted from 1: 0 when c does not occur
IndexOf(seq, c) ==
    LET hits == {i \in 1..Len(seq) : seq[i] = c}
    IN  IF hits = {} THEN 0 ELSE CHOOSE i \in hits : \A j \in hits : i <= j

\* the place of each character in a table without repetitions
PlaceIn(table) ==
    [c \in {table[i] : i \in 1..Len(table)} |->
        CHOOSE i \in 1..Len(table) : table[i] = c]

AsciiPlace == PlaceIn(Ascii)

\* printable ASCII starts at 32; any other character is sent as '?'
Ord(c) == IF c \in DOMAIN AsciiPlace THEN 31 + AsciiPlace[c] ELSE 63

Chr(b) ==
    IF b >= 32 /\ b < 32 + Len(Ascii)
    THEN Ascii[b - 31]
    ELSE BadChar

\* Buffer.from(str): the bytes of a string
BufferFrom(str) == [i \in 1..Len(str) |-> Ord(str[i])]

\* Buffer.toString(): the string of some bytes
BufferToString(bytes) == [i \in 1..Len(bytes) |-> Chr(bytes[i])]

ReplaceAll(str, from, to) ==
    [i \in 1..Len(str) |-> IF str[i] = from THEN to ELSE str[i]]

RemoveAll(str, c) == SelectSeq(str, LAMBDA x : x # c)

Repeat(c, n) == [i \in 1..n |-> c]

RECURSIVE Flat(_)
\* a sequence of characters as one string
Flat(str) ==
    IF Len(str) = 0 THEN ""
    ELSE IF Len(str) = 1 THEN str[1]
    ELSE Flat(SubSeq(str, 1, Len(str) \div 2))
            \o Flat(SubSeq(str, Len(str) \div 2 + 1, Len(str)))

----------------------------------------------------------------------------
(* base64 *)

Base64Alphabet ==
    <<"A", "B", "C", "D", "E", "F", "G", "H", "I", "J", "K", "L", "M", "N", "O", "P",
      "Q", "R", "S", "T", "U", "V", "W", "X", "Y", "Z", "a", "b", "c", "d", "e", "f",
      "g", "h", "i", "j", "k", "l", "m", "n", "o", "p", "q", "r", "s", "t", "u", "v",
      "w", "x", "y", "z", "0", "1", "2", "3", "4", "5", "6", "7", "8", "9", "+", "/">>

Sextet(n) == Base64Alphabet[n + 1]

RECURSIVE ToBase64(_)
\* Buffer.toString('base64'): three bytes to four characters, '=' padding
ToBase64(bytes) ==
    IF Len(bytes) = 0 THEN <<>>
    ELSE IF Len(bytes) = 1 THEN
        <<Sextet(bytes[1] \div 4), Sextet((bytes[1] % 4) * 16), "=", "=">>
    ELSE IF Len(bytes) = 2 THEN
        <<Sextet(bytes[1] \div 4),
          Sextet((bytes[1] % 4) * 16 + bytes[2] \div 16),
          Sextet((bytes[2] % 16) * 4), "=">>
    ELSE
        <<Sextet(bytes[1] \div 4),
          Sextet((bytes[1] % 4) * 16 + bytes[2] \div 16),
          Sextet((bytes[2] % 16) * 4 + bytes[3] \div 64),
          Sextet(bytes[3] % 64)>> \o ToBase64(SubSeq(bytes, 4, Len(bytes)))

Base64Place == PlaceIn(Base64Alphabet)

\* the value of a base64 character, -1 for a character outside the alphabet
SextetOf(c) == IF c \in DOMAIN Base64Place THEN Base64Place[c] - 1 ELSE -1

RECURSIVE FromSextets(_)
FromSextets(s) ==
    IF Len(s) < 2 THEN <<>>
    ELSE IF Len(s) = 2 THEN <<s[1] * 4 + s[2] \div 16>>
    ELSE IF Len(s) = 3 THEN
        <<s[1] * 4 + s[2] \div 16, (s[2] % 16) * 16 + s[3] \div 4>>
    ELSE
        <<s[1] * 4 + s[2] \div 16,
          (s[2] % 16) * 16 + s[3] \div 4,
          (s[3] % 4) * 64 + s[4]>> \o FromSextets(SubSeq(s, 5, Len(s)))

\* Buffer.from(str, 'base64'): decoding stops at the padding and skips
\* characters that are not of the alphabet
FromBase64(str) ==
    LET cut  == IndexOf(str, "=")
        body == IF cut = 0 THEN str ELSE SubSeq(str, 1, cut - 1)
        ok   == SelectSeq(body, LAMBDA c : SextetOf(c) >= 0)
    IN  FromSextets([i \in 1..Len(ok) |-> SextetOf(ok[i])])

\* Buffer.toString('base64url') and the replace chain of base64UrlEncode
base64UrlEncode(str) ==
    RemoveAll(ReplaceAll(ReplaceAll(ToBase64(BufferFrom(str)), "+", "-"), "/", "_"), "=")

base64UrlDecode(str) ==
    LET padded == str \o Repeat("=", (4 - (Len(str) % 4)) % 4)
    IN  BufferToString(FromBase64(ReplaceAll(ReplaceAll(padded, "-", "+"), "_", "/")))

----------------------------------------------------------------------------
(* JSON.  A value is a record: t its type, n and f the integer part and the *)
(* fraction digits of a number, s the characters of a string, m the members *)
(* <<key, value>> of an object in order.                                    *)

JNum(n, f) == [t |-> "num", n |-> n, f |-> f, s |-> <<>>, m |-> <<>>]
JInt(n)    == JNum(n, <<>>)
JStr(s)    == [t |-> "str", n |-> 0, f |-> <<>>, s |-> s, m |-> <<>>]
JObj(m)    == [t |-> "obj", n |-> 0, f |-> <<>>, s |-> <<>>, m |-> m]
JNull      == [t |-> "null", n |-> 0, f |-> <<>>, s |-> <<>>, m |-> <<>>]
\* the value of a property that an object does not have
JUndef     == [t |-> "undef", n |-> 0, f |-> <<>>, s |-> <<>>, m |-> <<>>]

DigitChars == <<"0", "1", "2", "3", "4", "5", "6", "7", "8", "9">>

DigitPlace == PlaceIn(DigitChars)

IsDigit(c) == c \in DOMAIN DigitPlace

RECURSIVE Digits(_)
\* the decimal text of a natural number
Digits(n) ==
    IF n < Len(DigitChars) THEN <<DigitChars[n + 1]>>
    ELSE Digits(n \div Len(DigitChars)) \o <<DigitChars[(n % Len(DigitChars)) + 1]>>

RECURSIVE NumberOf(_)
\* the natural number of a decimal text
NumberOf(ds) ==
    IF ds = <<>> THEN 0
    ELSE NumberOf(SubSeq(ds, 1, Len(ds) - 1)) * Len(DigitChars)
            + (DigitPlace[ds[Len(ds)]] - 1)

Quote == "\""

RECURSIVE JoinMembers(_)
RECURSIVE JSONstringify(_)
\* JSON.stringify of the values the handlers build: compact, members in
\* insertion order, strings without characters that need escaping
JSONstringify(v) ==
    IF v.t = "num" THEN Digits(v.n) \o (IF v.f = <<>> THEN <<>> ELSE <<".">> \o v.f)
    ELSE IF v.t = "str" THEN <<Quote>> \o v.s \o <<Quote>>
    ELSE IF v.t = "null" THEN <<"n", "u", "l", "l">>
    ELSE <<"{">> \o JoinMembers(v.m) \o <<"}">>

JoinMembers(m) ==
    IF m = <<>> THEN <<>>
    ELSE <<Quote>> \o m[1][1] \o <<Quote, ":">> \o JSONstringify(m[1][2])
            \o (IF Len(m) = 1 THEN <<>> ELSE <<",">> \o JoinMembers(Tail(m)))

\* a parse step: ok, the value read, the text left
ParseFail == [ok |-> FALSE, v |-> JUndef, rest |-> <<>>]
Parsed(v, rest) == [ok |-> TRUE, v |-> v, rest |-> rest]

RECURSIVE DigitRun(_)
\* how many digits a text starts with
DigitRun(str) ==
    IF str # <<>> /\ IsDigit(str[1]) THEN 1 + DigitRun(Tail(str)) ELSE 0

\* the fraction of a number whose k integer digits are read: k2 digits
\* behind a '.', or none
ParseFraction(str, k, k2) ==
    IF Len(str) > k /\ str[k + 1] = "."
    THEN IF k2 = 0 THEN ParseFail
         ELSE Parsed(JNum(NumberOf(SubSeq(str, 1, k)), SubSeq(str, k + 2, k + 1 + k2)),
                     SubSeq(str, k + 2 + k2, Len(str)))
    ELSE Parsed(JInt(NumberOf(SubSeq(str, 1, k))), SubSeq(str, k + 1, Len(str)))

ParseDigits(str, k) ==
    IF k = 0 \/ (k > 1 /\ str[1] = "0") THEN ParseFail
    ELSE ParseFraction(str, k, DigitRun(SubSeq(str, k + 2, Len(str))))

\* an unsigned decimal number, with or without a fraction; no leading zero
ParseNumber(str) == ParseDigits(str, DigitRun(str))

\* the string literal that ends at the quote j characters behind the opening
\* one; a backslash, a control or an undecodable character ends the parse
ParseQuoted(str, j) ==
    IF j = 0 \/ \E i \in 2..j : str[i] \in {"\\", BadChar} THEN ParseFail
    ELSE Parsed(JStr(SubSeq(str, 2, j)), SubSeq(str, j + 2, Len(str)))

\* a string literal without escapes
ParseString(str) ==
    IF str = <<>> \/ str[1] # Quote THEN ParseFail
    ELSE ParseQuoted(str, IndexOf(Tail(str), Quote))

ParseScalar(str) ==
    IF str = <<>> THEN ParseFail
    ELSE IF str[1] = Quote THEN ParseString(str)
    ELSE IF IsDigit(str[1]) THEN ParseNumber(str)
    ELSE IF Len(str) >= 4 /\ SubSeq(str, 1, 4) = <<"n", "u", "l", "l">>
    THEN Parsed(JNull, SubSeq(str, 5, Len(str)))
    ELSE ParseFail

RECURSIVE ParseMembers(_, _)
RECURSIVE ParseMemberEnd(_, _)
RECURSIVE ParseMemberValue(_, _)
\* the members of an object, after its '{' or after a ','
ParseMembers(str, acc) == ParseMemberValue(ParseString(str), acc)

\* behind the key k: ':' and the value
ParseMemberValue(k, acc) ==
    IF ~k.ok \/ k.rest = <<>> \/ k.rest[1] # ":" THEN ParseFail
    ELSE ParseMemberEnd(ParseScalar(Tail(k.rest)), Append(acc, <<k.v.s>>))

\* behind the value v of the last key of acc: ',' and more members, or '}'
ParseMemberEnd(v, acc) ==
    IF ~v.ok \/ v.rest = <<>> THEN ParseFail
    ELSE IF v.rest[1] = ","
    THEN ParseMembers(Tail(v.rest), [acc EXCEPT ![Len(acc)] = Append(@, v.v)])
    ELSE IF v.rest[1] = "}"
    THEN Parsed(JObj([acc EXCEPT ![Len(acc)] = Append(@, v.v)]), Tail(v.rest))
    ELSE ParseFail

ParseValue(str) ==
    IF str # <<>> /\ str[1] = "{"
    THEN IF Len(str) >= 2 /\ str[2] = "}" THEN Parsed(JObj(<<>>), SubSeq(str, 3, Len(str)))
         ELSE ParseMembers(Tail(str), <<>>)
    ELSE ParseScalar(str)

\* JSON.parse for compact texts of numbers, strings, null and flat objects of
\* them; ok = FALSE is the SyntaxError it throws
\* a parse is complete when no text is left
ParseAll(r) ==
    IF r.ok /\ r.rest = <<>> THEN [ok |-> TRUE, v |-> r.v]
    ELSE [ok |-> FALSE, v |-> JUndef]

JSONparse(str) == ParseAll(ParseValue(str))

\* obj.key (on a value that is not null): the last member of that key
Get(v, key) ==
    LET hits == {i \in 1..Len(v.m) : v.m[i][1] = key}
    IN  IF hits = {} THEN JUndef
        ELSE v.m[CHOOSE i \in hits : \A j \in hits : j <= i][2]

\* !v
Falsy(v) ==
    \/ v.t \in {"undef", "null"}
    \/ v.t = "num" /\ v.n = 0 /\ \A i \in 1..Len(v.f) : v.f[i] = "0"
    \/ v.t = "str" /\ v.s = <<>>

----------------------------------------------------------------------------
(* Bounds and input sets *)

MaxUsers == 2
MaxTicks == 2

EmailLower == <<"a", "@", "x">>
EmailUpper == <<"A", "@", "x">>
Emails     == {EmailLower, EmailUpper}
Names      == {<<"N">>}
Passwords  == {"pw1"}
LoginPasswords == Passwords \cup {"pw2"}
Salts      == {"salt1"}
Secrets    == {"k1", "k2"}
\* Math.random(): the fraction digits of a value in [0, 1)
Randoms    == {<<"2", "5">>, <<"7">>}

MsPerSecond == 1000
DaySeconds  == 24 * 60 * 60
DayMs       == 24 * 60 * 60 * 1000
\* the clock starts after the epoch and moves in steps of half a day
StartMs     == 5 * MsPerSecond
TickMs      == DayMs \div 2

----------------------------------------------------------------------------
(* Rows and results *)

\* usersTable.password_hash values: the text of a digest is opaque, its kind
\* and inputs are kept
SaltBytes == 16
KeyLen    == 64

sha256Hex(password) ==
    [kind |-> "sha256", salt |-> "", pw |-> password, text |-> <<>>]
pbkdf2Hex(password, salt) ==
    [kind |-> "pbkdf2", salt |-> salt, pw |-> password, text |-> <<>>]
\* any other text in the password_hash column
HashText(text) == [kind |-> "text", salt |-> "", pw |-> "", text |-> text]

\* bytes of a SHA-256 digest
DigestBytes == 32

\* String.length of a stored hash: 64 hex digits of SHA-256, or the hex of
\* the salt, ':' and the hex of the derived key, or the length of the text
HashLength(h) ==
    IF h.kind = "sha256" THEN 2 * DigestBytes
    ELSE IF h.kind = "pbkdf2" THEN 2 * SaltBytes + 1 + 2 * KeyLen
    ELSE Len(h.text)

HexChars ==
    {"0", "1", "2", "3", "4", "5", "6", "7", "8", "9",
     "a", "b", "c", "d", "e", "f", "A", "B", "C", "D", "E", "F"}

\* Buffer.from(text, 'hex').length: decoding stops at the first pair of
\* characters that is not two hex digits
HexPrefixBytes(text) ==
    LET pairs == Len(text) \div 2
        bad   == {k \in 1..pairs :
                    text[2 * k - 1] \notin HexChars \/ text[2 * k] \notin HexChars}
    IN  IF bad = {} THEN pairs ELSE (CHOOSE k \in bad : \A j \in bad : k <= j) - 1

\* Buffer.from(hash, 'hex'): its length, and the hash it is the bytes of
HexBuffer(h) ==
    [len |-> IF h.kind = "sha256" THEN DigestBytes
             ELSE IF h.kind = "pbkdf2" THEN SaltBytes
             ELSE HexPrefixBytes(h.text),
     of  |-> h]

ErrRange == "RangeError: Input buffers must have the same byte length"

\* crypto.timingSafeEqual: throws on buffers of different length
timingSafeEqual(a, b) ==
    IF a.len # b.len THEN [value |-> FALSE, err |-> ErrRange]
    ELSE [value |-> a.of = b.of, err |-> ""]

NoUser == [id |-> 0, email |-> <<>>, name |-> <<>>, created_at |-> 0, updated_at |-> 0]

\* the selected row as it is, password_hash included
WholeRow(row) == row

\* the user object the handlers return: the row without password_hash
PublicUser(row) ==
    [id |-> row.id, email |-> row.email, name |-> row.name,
     created_at |-> row.created_at, updated_at |-> row.updated_at]

\* the token a client holds: who made it (by), for whom and when; for a token
\* made outside the handlers, the text it was made from and the signing key
NoHeld == [token |-> <<>>, by |-> "", userId |-> 0, email |-> <<>>, at |-> 0,
           from |-> <<>>, key |-> ""]

NoInput == [email |-> <<>>, password |-> "", name |-> <<>>, token |-> <<>>, src |-> ""]

\* what a handler returns (ok) or throws (err), and the checks it came through
Returned(user, token, reached) ==
    [ok |-> TRUE, err |-> "", user |-> user, token |-> token, reached |-> reached]
Thrown(err, reached) ==
    [ok |-> FALSE, err |-> err, user |-> NoUser, token |-> <<>>, reached |-> reached]

Outcome(op, r, input) ==
    [op |-> op, ok |-> r.ok, err |-> r.err, user |-> r.user, token |-> r.token,
     reached |-> r.reached, in |-> input]

ErrMissingSecret == "JWT_SECRET environment variable is not configured"
ErrFormat        == "Invalid token format"
ErrSignature     == "Invalid token signature"
ErrPayload       == "Invalid token payload"
ErrExpired       == "Token expired"
ErrNotActive     == "Token not active"
ErrUserNotFound  == "User not found"
ErrMismatch      == "Token user mismatch"
ErrTypeError     == "TypeError: null is not an object"
ErrExists        == "User with this email already exists"
ErrCredentials   == "Invalid email or password"
ErrTokenRequired == "UNAUTHORIZED: Authentication token required"
ErrUnauthorized  == "UNAUTHORIZED: Invalid or expired token"

----------------------------------------------------------------------------
(* The token codec of the auth middleware *)

KeyUserId == <<"u", "s", "e", "r", "I", "d">>
KeyEmail  == <<"e", "m", "a", "i", "l">>
KeyIat    == <<"i", "a", "t">>
KeyExp    == <<"e", "x", "p">>

JwtHeader ==
    JObj(<< <<(<<"a", "l", "g">>), JStr(<<"H", "S", "2", "5", "6">>)>>,
            <<(<<"t", "y", "p">>), JStr(<<"J", "W", "T">>)>> >>)

RECURSIVE Split(_, _)
\* String.split(sep)
Split(str, sep) ==
    LET i == IndexOf(str, sep)
    IN  IF i = 0 THEN <<str>>
        ELSE <<SubSeq(str, 1, i - 1)>> \o Split(SubSeq(str, i + 1, Len(str)), sep)

\* HMAC-SHA256 of data under secret, base64url: one opaque element
createSignature(data, secret) ==
    <<"hmac-sha256(" \o Flat(data) \o "," \o secret \o ")">>

\* Math.floor(Date.now() / 1000)
NowSeconds == nowMs \div MsPerSecond

JwtPayload(userId, email, iat, exp) ==
    JObj(<< <<KeyUserId, userId>>, <<KeyEmail, email>>, <<KeyIat, iat>>, <<KeyExp, exp>> >>)

\* base64UrlEncode(JSON.stringify(header)): the same text at every call
EncodedHeader == base64UrlEncode(JSONstringify(JwtHeader))

generateToken(user) ==
    LET payload == JwtPayload(JInt(user.id), JStr(user.email), JInt(NowSeconds),
                              JInt(NowSeconds + DaySeconds))
        data    == EncodedHeader \o <<".">> \o base64UrlEncode(JSONstringify(payload))
    IN  IF jwtSecret = "" THEN Thrown(ErrMissingSecret, <<>>)
        ELSE Returned(NoUser, data \o <<".">> \o createSignature(data, jwtSecret), <<>>)

verifySignature(token, secret) ==
    LET parts == Split(token, ".")
        data  == parts[1] \o <<".">> \o parts[2]
    IN  parts[3] = createSignature(data, secret)

\* payload.exp < now and payload.iat > now: a value that is not a number
\* compares false
JsLess(v, n)    == v.t = "num" /\ v.n < n

\* variant of the iat comparison: payload.iat >= now
JsGreaterOrEqual(v, n) == v.t = "num" /\ v.n >= n

JsGreater(v, n) == v.t = "num" /\ (v.n > n \/ (v.n = n /\ ~Falsy(JNum(0, v.f))))

\* WHERE users.id = payload.userId
SelectById(userId) ==
    SelectSeq(users, LAMBDA u : userId.t = "num" /\ userId.f = <<>> /\ userId.n = u.id)

\* the checks of verifyToken in their order
Checks ==
    <<"secret", "format", "signature", "parse", "fields", "exp", "iat", "lookup", "email">>

\* the checks up to the one named
UpTo(check) == SubSeq(Checks, 1, IndexOf(Checks, check))

\* variant of the last checks: the email of the row is not compared
verifyUserById(found, email) ==
    IF Len(found) = 0 THEN Thrown(ErrUserNotFound, UpTo("lookup"))
    ELSE Returned(PublicUser(found[1]), <<>>, UpTo("email"))

\* verifyToken from the rows the lookup returned
verifyUser(found, email) ==
    IF Len(found) = 0 THEN Thrown(ErrUserNotFound, UpTo("lookup"))
    ELSE IF JStr(found[1].email) # email THEN Thrown(ErrMismatch, UpTo("email"))
    ELSE Returned(PublicUser(found[1]), <<>>, UpTo("email"))

\* variant of the time checks: iat is looked at before exp
verifyClaimsIatFirst(userId, email, exp, iat) ==
    IF Falsy(userId) \/ Falsy(email) \/ Falsy(exp) \/ Falsy(iat)
    THEN Thrown(ErrPayload, UpTo("fields"))
    ELSE IF JsGreater(iat, NowSeconds) THEN Thrown(ErrNotActive, UpTo("iat"))
    ELSE IF JsLess(exp, NowSeconds) THEN Thrown(ErrExpired, UpTo("exp"))
    ELSE verifyUser(SelectById(userId), email)

\* verifyToken from the four claims of the payload
verifyClaims(userId, email, exp, iat) ==
    IF Falsy(userId) \/ Falsy(email) \/ Falsy(exp) \/ Falsy(iat)
    THEN Thrown(ErrPayload, UpTo("fields"))
    ELSE IF JsLess(exp, NowSeconds) THEN Thrown(ErrExpired, UpTo("exp"))
    ELSE IF JsGreater(iat, NowSeconds) THEN Thrown(ErrNotActive, UpTo("iat"))
    ELSE verifyUser(SelectById(userId), email)

\* verifyToken from the decoded and parsed payload segment; a property of
\* null cannot be read
verifyPayload(decoded) ==
    IF ~decoded.ok THEN Thrown(ErrPayload, UpTo("parse"))
    ELSE IF decoded.v.t = "null" THEN Thrown(ErrTypeError, UpTo("fields"))
    ELSE verifyClaims(Get(decoded.v, KeyUserId), Get(decoded.v, KeyEmail),
                      Get(decoded.v, KeyExp), Get(decoded.v, KeyIat))

\* variant of the middle checks: the signature is not verified
verifyPartsUnsigned(token, parts) ==
    IF Len(parts) # 3 THEN Thrown(ErrFormat, UpTo("format"))
    ELSE verifyPayload(JSONparse(base64UrlDecode(parts[2])))

\* verifyToken from the parts of the token
verifyParts(token, parts) ==
    IF Len(parts) # 3 THEN Thrown(ErrFormat, UpTo("format"))
    ELSE IF ~verifySignature(token, jwtSecret) THEN Thrown(ErrSignature, UpTo("signature"))
    ELSE verifyPayload(JSONparse(base64UrlDecode(parts[2])))

verifyToken(token) ==
    IF jwtSecret = "" THEN Thrown(ErrMissingSecret, UpTo("secret"))
    ELSE verifyParts(token, Split(token, "."))

BearerPrefix == <<"B", "e", "a", "r", "e", "r", " ">>

\* an Authorization header: absent, or its text
NoHeader == [present |-> FALSE, text |-> <<>>]
Header(text) == [present |-> TRUE, text |-> text]

\* variant of extractTokenFromHeader: the scheme word alone is looked for,
\* whatever character follows it
extractTokenLoose(authHeader) ==
    IF ~authHeader.present
          \/ Len(authHeader.text) < Len(BearerPrefix)
          \/ SubSeq(authHeader.text, 1, Len(BearerPrefix) - 1)
                 # SubSeq(BearerPrefix, 1, Len(BearerPrefix) - 1)
    THEN [none |-> TRUE, text |-> <<>>]
    ELSE [none |-> FALSE,
          text |-> SubSeq(authHeader.text, Len(BearerPrefix) + 1, Len(authHeader.text))]

\* null (none = TRUE) or the header behind its first seven characters
extractTokenFromHeader(authHeader) ==
    IF ~authHeader.present \/ authHeader.text = <<>>
          \/ Len(authHeader.text) < Len(BearerPrefix)
          \/ SubSeq(authHeader.text, 1, Len(BearerPrefix)) # BearerPrefix
    THEN [none |-> TRUE, text |-> <<>>]
    ELSE [none |-> FALSE,
          text |-> SubSeq(authHeader.text, Len(BearerPrefix) + 1, Len(authHeader.text))]

\* variant of the try/catch: next() is called whatever verifyToken did
AuthorizedAnyway(auth) == Returned(auth.user, <<>>, auth.reached)

\* the middleware of protectedProcedure: ok means next() ran with ctx.auth
\* the try/catch around verifyToken: any error becomes UNAUTHORIZED
Authorized(auth) ==
    IF ~auth.ok THEN Thrown(ErrUnauthorized, auth.reached) ELSE auth

\* variant of the middleware: only null counts as a missing token
RequireTokenNotNull(token) ==
    IF token.none THEN Thrown(ErrTokenRequired, <<>>)
    ELSE Authorized(verifyToken(token.text))

\* the middleware from the extracted token: null and '' are both !token
RequireToken(token) ==
    IF token.none \/ token.text = <<>> THEN Thrown(ErrTokenRequired, <<>>)
    ELSE Authorized(verifyToken(token.text))

protectedProcedure(authHeader) == RequireToken(extractTokenFromHeader(authHeader))

----------------------------------------------------------------------------
(* register *)

\* String.toLowerCase() on the letters A-Z
LowerCase(str) ==
    [i \in 1..Len(str) |->
        IF Ord(str[i]) \in 65..90 THEN Chr(Ord(str[i]) + 32) ELSE str[i]]

\* variant of the lookup: WHERE lower(users.email) = lower(input.email)
FindByEmailIgnoringCase(email) ==
    SelectSeq(users, LAMBDA u : LowerCase(u.email) = LowerCase(email))

\* WHERE users.email = input.email
FindByEmail(email) == SelectSeq(users, LAMBDA u : u.email = email)

\* the row an insert makes: serial id, timestamps defaultNow()
NewRow(email, passwordHash, name) ==
    [id |-> nextId, email |-> email, password_hash |-> passwordHash, name |-> name,
     created_at |-> nowMs, updated_at |-> nowMs]

\* the token of register: base64 of the JSON text, no header, no signature
registerToken(user) ==
    ToBase64(BufferFrom(JSONstringify(
        JObj(<< <<KeyUserId, JInt(user.id)>>, <<KeyEmail, JStr(user.email)>>,
                <<KeyExp, JInt(nowMs + DayMs)>> >>))))

\* the result of register and the rows of usersTable after it
register(input, salt) ==
    LET row == NewRow(input.email, pbkdf2Hex(input.password, salt), input.name)
    IN  IF Len(FindByEmail(input.email)) > 0
        THEN [r |-> Thrown(ErrExists, <<>>), rows |-> users]
        ELSE [r |-> Returned(PublicUser(row), registerToken(row), <<>>),
              rows |-> Append(users, row)]

----------------------------------------------------------------------------
(* login *)

DefaultSecret == "default-secret-key"

\* the token of login: SHA-256 over header.body.secret, iat in milliseconds
\* plus Math.random()
loginToken(payload, random) ==
    LET header == EncodedHeader
        body   == base64UrlEncode(JSONstringify(
                      JObj(<< <<KeyUserId, JInt(payload.userId)>>,
                              <<KeyEmail, JStr(payload.email)>>,
                              <<KeyExp, JInt(NowSeconds + DaySeconds)>>,
                              <<KeyIat, JNum(nowMs, random)>> >>)))
        secret == IF jwtSecret = "" THEN DefaultSecret ELSE jwtSecret
    IN  header \o <<".">> \o body \o <<".">>
            \o <<"sha256(" \o Flat(header \o <<".">> \o body) \o "." \o secret \o ")">>

\* SHA-256 of the password in hex against the stored hash: the value
\* returned, or the error thrown
verifyPassword(password, hash) ==
    LET hashedInput == sha256Hex(password)
    IN  IF HashLength(hashedInput) # HashLength(hash) THEN [value |-> FALSE, err |-> ""]
        ELSE timingSafeEqual(HexBuffer(hashedInput), HexBuffer(hash))

\* login from the row found and the outcome of verifyPassword
loginChecked(user, isPasswordValid, random) ==
    IF isPasswordValid.err # "" THEN Thrown(isPasswordValid.err, <<>>)
    ELSE IF ~isPasswordValid.value THEN Thrown(ErrCredentials, <<>>)
    ELSE Returned(PublicUser(user),
                  loginToken([userId |-> user.id, email |-> user.email], random), <<>>)

\* variant of login: an email that is not stored gets an error of its own
loginNaming(input, random) ==
    LET found == FindByEmail(input.email)
    IN  IF Len(found) = 0 THEN Thrown(ErrUserNotFound, <<>>)
        ELSE loginChecked(found[1],
                          verifyPassword(input.password, found[1].password_hash), random)

login(input, random) ==
    LET found == FindByEmail(input.email)
    IN  IF Len(found) = 0 THEN Thrown(ErrCredentials, <<>>)
        ELSE loginChecked(found[1],
                          verifyPassword(input.password, found[1].password_hash), random)

----------------------------------------------------------------------------
(* The system: handlers called one at a time *)

\* the client keeps the token of an AuthResponse
Keep(r, by) ==
    IF r.ok
    THEN [NoHeld EXCEPT !.token = r.token, !.by = by, !.userId = r.user.id,
                        !.email = r.user.email, !.at = nowMs]
    ELSE held

\* at most MaxCalls calls are in flight at once
MaxCalls == 2
Callers  == 1..MaxCalls

\* a call that has not started: pc is the place in the handler, header the
\* Authorization header of its context, token what extractTokenFromHeader
\* made of it, r its result, runs and as count the task handler runs and the
\* userId they ran with
IdleCall ==
    [pc |-> "idle", op |-> "", in |-> NoInput, header |-> NoHeader,
     token |-> [none |-> TRUE, text |-> <<>>],
     r |-> Thrown("", <<>>), runs |-> 0, as |-> 0]

NoCalls == [c \in Callers |-> IdleCall]

Init ==
    /\ users = <<>>
    /\ nextId = 1
    /\ jwtSecret \in Secrets \cup {""}
    /\ nowMs = StartMs
    /\ held = NoHeld
    /\ res = Outcome("", Thrown("", <<>>), NoInput)
    /\ calls = NoCalls
    /\ tasks = <<>>
    /\ taskSeq = 1

Registered(input, out) ==
    /\ Len(users) < MaxUsers \/ ~out.r.ok
    /\ users' = out.rows
    /\ nextId' = IF out.r.ok THEN nextId + 1 ELSE nextId
    /\ held' = Keep(out.r, "register")
    /\ res' = Outcome("register", out.r,
                      [NoInput EXCEPT !.email = input.email, !.password = input.password,
                                      !.name = input.name])
    /\ UNCHANGED <<jwtSecret, nowMs, calls, tasks, taskSeq>>

Register(email, password, name, salt) ==
    Registered([email |-> email, password |-> password, name |-> name],
               register([email |-> email, password |-> password, name |-> name], salt))

\* a row put into usersTable directly, with the hash login checks against
InsertUser(email, password, name) ==
    /\ Len(users) < MaxUsers
    /\ Len(FindByEmail(email)) = 0
    /\ users' = Append(users, NewRow(email, sha256Hex(password), name))
    /\ nextId' = nextId + 1
    /\ res' = Outcome("insert", Returned(NoUser, <<>>, <<>>),
                      [NoInput EXCEPT !.email = email, !.password = password,
                                      !.name = name])
    /\ UNCHANGED <<jwtSecret, nowMs, held, calls, tasks, taskSeq>>

LoggedIn(input, r) ==
    /\ held' = Keep(r, "login")
    /\ res' = Outcome("login", r,
                      [NoInput EXCEPT !.email = input.email, !.password = input.password])
    /\ UNCHANGED <<users, nextId, jwtSecret, nowMs, calls, tasks, taskSeq>>

Login(email, password, random) ==
    LoggedIn([email |-> email, password |-> password],
             login([email |-> email, password |-> password], random))

\* generateToken of the auth middleware for a stored user
Generated(user, r) ==
    /\ held' = Keep([r EXCEPT !.user = user], "generateToken")
    /\ res' = Outcome("generateToken", r, [NoInput EXCEPT !.email = user.email])
    /\ UNCHANGED <<users, nextId, jwtSecret, nowMs, calls, tasks, taskSeq>>

GenerateToken(i) == Generated(PublicUser(users[i]), generateToken(PublicUser(users[i])))

\* verifyToken on the token the client holds
VerifyHeld ==
    /\ held # NoHeld
    /\ res' = Outcome("verifyToken", verifyToken(held.token),
                      [NoInput EXCEPT !.token = held.token, !.src = held.by])
    /\ UNCHANGED <<users, nextId, jwtSecret, nowMs, held, calls, tasks, taskSeq>>

\* a protected request of the client: Authorization: Bearer <token>
Authenticate ==
    /\ held # NoHeld
    /\ res' = Outcome("authenticate", protectedProcedure(Header(BearerPrefix \o held.token)),
                      [NoInput EXCEPT !.token = held.token, !.src = held.by])
    /\ UNCHANGED <<users, nextId, jwtSecret, nowMs, held, calls, tasks, taskSeq>>

Tick ==
    /\ nowMs + TickMs <= StartMs + MaxTicks * TickMs
    /\ nowMs' = nowMs + TickMs
    /\ res' = Outcome("tick", Returned(NoUser, <<>>, <<>>), NoInput)
    /\ UNCHANGED <<users, nextId, jwtSecret, held, calls, tasks, taskSeq>>

Next ==
    \/ \E e \in Emails, p \in Passwords, n \in Names, s \in Salts : Register(e, p, n, s)
    \/ \E e \in Emails, p \in Passwords, n \in Names : InsertUser(e, p, n)
    \/ \E e \in Emails, p \in LoginPasswords, x \in Randoms : Login(e, p, x)
    \/ \E i \in 1..Len(users) : GenerateToken(i)
    \/ VerifyHeld
    \/ Authenticate
    \/ Tick

Spec == Init /\ [][Next]_vars

----------------------------------------------------------------------------
(* register calls interleaved: each call is a select, then an insert *)

ErrUnique == "duplicate key value violates unique constraint \"users_email_unique\""

\* variant of the insert: the email column has no unique index
InsertRowUnchecked(row) ==
    [r |-> Returned(PublicUser(row), registerToken(row), <<>>), rows |-> Append(users, row)]

\* INSERT INTO users ... RETURNING: the unique index on email refuses a second
\* row with the same email
InsertRow(row) ==
    IF Len(FindByEmail(row.email)) > 0
    THEN [r |-> Thrown(ErrUnique, <<>>), rows |-> users]
    ELSE [r |-> Returned(PublicUser(row), registerToken(row), <<>>),
          rows |-> Append(users, row)]

\* the call after its select: refused, or on its way to the insert
Selected(c, input, exists) ==
    /\ calls' = [calls EXCEPT ![c] =
                    [IdleCall EXCEPT !.op = "register", !.in = input,
                                     !.pc = IF exists THEN "done" ELSE "selected",
                                     !.r = Thrown(IF exists THEN ErrExists ELSE "", <<>>)]]
    /\ res' = IF exists THEN Outcome("register", Thrown(ErrExists, <<>>), input) ELSE res
    /\ UNCHANGED <<users, nextId, jwtSecret, nowMs, held, tasks, taskSeq>>

\* register up to its existence check
RegisterSelect(c, email, password, name) ==
    /\ calls[c].pc = "idle"
    /\ Selected(c, [NoInput EXCEPT !.email = email, !.password = password, !.name = name],
                Len(FindByEmail(email)) > 0)

\* the call after its insert; the serial is drawn whether or not the row is kept
Inserted(c, out) ==
    /\ users' = out.rows
    /\ nextId' = nextId + 1
    /\ held' = Keep(out.r, "register")
    /\ calls' = [calls EXCEPT ![c].pc = "done", ![c].r = out.r]
    /\ res' = Outcome("register", out.r, calls[c].in)
    /\ UNCHANGED <<jwtSecret, nowMs, tasks, taskSeq>>

\* register from its insert to its end
RegisterInsert(c, salt) ==
    /\ calls[c].pc = "selected"
    /\ Len(users) < MaxUsers
    /\ Inserted(c, InsertRow(NewRow(calls[c].in.email,
                                    pbkdf2Hex(calls[c].in.password, salt),
                                    calls[c].in.name)))

NextRace ==
    \/ \E c \in Callers, e \in Emails, p \in Passwords, n \in Names :
          RegisterSelect(c, e, p, n)
    \/ \E c \in Callers, s \in Salts : RegisterInsert(c, s)
    \/ Tick

SpecRace == Init /\ [][NextRace]_vars

----------------------------------------------------------------------------
(* verifyToken on tokens made outside the handlers *)

\* claim values tried: user ids 0..MaxUserId, and times 0 and up to MaxSkew
\* seconds before and after the clock
MaxUserId == 2
MaxSkew   == 1

StartSeconds == StartMs \div MsPerSecond

\* header.payload.signature, signed as the middleware signs
SignedToken(header, body, key) ==
    (header \o <<".">> \o body) \o <<".">>
        \o createSignature(header \o <<".">> \o body, key)

TimesAround == {0} \cup {StartSeconds + d : d \in (0 - MaxSkew)..MaxSkew}

\* payloads with all four claims
ClaimTexts ==
    {JSONstringify(JwtPayload(JInt(u), JStr(e), JInt(i), JInt(x))) :
        u \in 0..MaxUserId, e \in Emails \cup {<<>>}, i \in TimesAround, x \in TimesAround}

FullMembers ==
    << <<KeyUserId, JInt(1)>>, <<KeyEmail, JStr(EmailLower)>>,
       <<KeyIat, JInt(StartSeconds)>>, <<KeyExp, JInt(StartSeconds + 1)>> >>

\* payloads with one of the four claims left out
PartialTexts ==
    {JSONstringify(JObj(SubSeq(FullMembers, 1, k - 1)
                          \o SubSeq(FullMembers, k + 1, Len(FullMembers)))) :
        k \in 1..Len(FullMembers)}

\* payloads that are no object
OtherTexts ==
    { <<"i", "n", "v", "a", "l", "i", "d", " ", "j", "s", "o", "n">>,
      <<"n", "u", "l", "l">>, <<"7">>, <<"{", "}">>, <<>> }

CraftedHeld ==
    {[NoHeld EXCEPT !.token = SignedToken(EncodedHeader, base64UrlEncode(text), key),
                    !.by = "crafted", !.at = StartMs, !.from = text, !.key = key] :
        text \in ClaimTexts \cup PartialTexts \cup OtherTexts, key \in Secrets}

\* a signed token whose header segment is empty
HeaderlessHeld ==
    {[NoHeld EXCEPT !.token = SignedToken(<<>>, base64UrlEncode(JSONstringify(JObj(FullMembers))), key),
                    !.by = "headerless", !.at = StartMs,
                    !.from = JSONstringify(JObj(FullMembers)), !.key = key] :
        key \in Secrets}

MalformedTokens ==
    { <<"o", "n", "l", "y", ".", "o", "n", "e">>,
      <<"a", ".", ".", "b">>, <<".", ".">>, <<"a", ".", "b", ".", "c">>,
      <<"a", ".", "b", ".", "c", ".", "d">>, <<"a", "b", "c">>, <<".", "a", ".", "b">> }

MalformedHeld ==
    {[NoHeld EXCEPT !.token = t, !.by = "malformed", !.at = StartMs] : t \in MalformedTokens}

TamperChars == {".", "A", "x"}

\* the places of a token's payload segment
PayloadPlaces(token) ==
    LET parts == Split(token, ".")
    IN  (Len(parts[1]) + 2)..(Len(parts[1]) + 1 + Len(parts[2]))

\* the token with one character of its payload segment replaced
TamperedOf(token) ==
    {[NoHeld EXCEPT !.token = [token EXCEPT ![x[1]] = x[2]], !.by = "tampered",
                    !.at = StartMs, !.from = token, !.key = jwtSecret] :
        x \in {y \in PayloadPlaces(token) \X TamperChars : token[y[1]] # y[2]}}

\* tampered copies of the tokens generateToken makes for the stored users
TamperedHeld ==
    IF jwtSecret = "" THEN {}
    ELSE UNION {TamperedOf(t) :
                   t \in {generateToken(PublicUser(users[i])).token : i \in 1..Len(users)}}

\* the users table after none, one or two inserts
StoredRow(id, email) ==
    [id |-> id, email |-> email, password_hash |-> sha256Hex("pw1"), name |-> <<"N">>,
     created_at |-> StartMs, updated_at |-> StartMs]

UserTables ==
    { <<>>, <<StoredRow(1, EmailLower)>>,
      <<StoredRow(1, EmailLower), StoredRow(2, EmailUpper)>> }

InitVerify ==
    /\ users \in UserTables
    /\ nextId = Len(users) + 1
    /\ jwtSecret \in Secrets \cup {""}
    /\ nowMs = StartMs
    /\ held \in CraftedHeld \cup HeaderlessHeld \cup MalformedHeld \cup TamperedHeld
    /\ res = Outcome("", Thrown("", <<>>), NoInput)
    /\ calls = NoCalls
    /\ tasks = <<>>
    /\ taskSeq = 1

NextVerify == VerifyHeld \/ Authenticate

SpecVerify == InitVerify /\ [][NextVerify]_vars

----------------------------------------------------------------------------
(* login against rows whose password_hash was written by other hands *)

\* texts of the password_hash column: a short text, a text of the length of a
\* SHA-256 hex digest with no hex digit in it, one with a single bad last
\* character, one of hex digits only, a derived key with no separator, none
HashTexts ==
    { <<"h", "a", "s", "h", "e", "d", "_", "p", "a", "s", "s", "w", "o", "r", "d",
        "_", "1", "2", "3">>,
      Repeat("z", 2 * DigestBytes),
      Repeat("a", 2 * DigestBytes - 1) \o <<"g">>,
      Repeat("0", 2 * DigestBytes),
      Repeat("a", 2 * SaltBytes + 2 * KeyLen),
      <<>> }

StoredHashes ==
    {sha256Hex(p) : p \in Passwords}
        \cup {pbkdf2Hex(p, x) : p \in Passwords, x \in Salts}
        \cup {HashText(t) : t \in HashTexts}

\* the users table after one insert with the given password_hash
HashTables ==
    {<<[StoredRow(1, e) EXCEPT !.password_hash = h]>> : e \in Emails, h \in StoredHashes}

InitLogin ==
    /\ users \in HashTables
    /\ nextId = Len(users) + 1
    /\ jwtSecret \in Secrets \cup {""}
    /\ nowMs = StartMs
    /\ held = NoHeld
    /\ res = Outcome("", Thrown("", <<>>), NoInput)
    /\ calls = NoCalls
    /\ tasks = <<>>
    /\ taskSeq = 1

NextLogin == \E e \in Emails, p \in LoginPasswords, x \in Randoms : Login(e, p, x)

SpecLogin == InitLogin /\ [][NextLogin]_vars

----------------------------------------------------------------------------
(* Requests to the protected procedures: each request gets its context from *)
(* createContext, passes the middleware of protectedProcedure, and its task  *)
(* handler runs when the middleware called next().                           *)

Procedures == {"createTask", "getTasks", "getTask", "updateTask", "deleteTask"}

\* tokens of the two users, signed with the first secret and valid for a day
RequestTokens ==
    [u \in 1..2 |->
        SignedToken(EncodedHeader,
                    base64UrlEncode(JSONstringify(
                        JwtPayload(JInt(u), JStr(IF u = 1 THEN EmailLower ELSE EmailUpper),
                                   JInt(StartSeconds), JInt(StartSeconds + DaySeconds)))),
                    "k1")]

\* req.headers.authorization: absent, empty, the bare scheme, another scheme,
\* the client's header for either user, and the first user's token behind
\* "bearer ", "Bearer" and "Bearer  "
RequestHeaders ==
    {NoHeader, Header(<<>>), Header(BearerPrefix),
     Header(<<"B", "a", "s", "i", "c", " ", "x">>),
     Header(BearerPrefix \o RequestTokens[1]),
     Header(BearerPrefix \o RequestTokens[2]),
     Header(<<"b">> \o Tail(BearerPrefix) \o RequestTokens[1]),
     Header(SubSeq(BearerPrefix, 1, Len(BearerPrefix) - 1) \o RequestTokens[1]),
     Header(BearerPrefix \o <<" ">> \o RequestTokens[1])}

\* createContext: the request arrives with its header; requests are numbered
\* in the order they arrive
Arrive(c, header) ==
    /\ calls[c].pc = "idle"
    /\ \A d \in Callers : d < c => calls[d].pc # "idle"
    /\ calls' = [calls EXCEPT ![c] = [IdleCall EXCEPT !.pc = "anonymous", !.header = header]]
    /\ UNCHANGED <<users, nextId, jwtSecret, nowMs, held, res, tasks, taskSeq>>

\* the middleware starts: the token is taken from the header
Enter(c) ==
    /\ calls[c].pc = "anonymous"
    /\ calls' = [calls EXCEPT ![c].pc = "verifying",
                              ![c].token = extractTokenFromHeader(calls[c].header)]
    /\ UNCHANGED <<users, nextId, jwtSecret, nowMs, held, res, tasks, taskSeq>>

\* the middleware ends: next() with ctx.auth, or UNAUTHORIZED
Verified(c, auth) ==
    /\ calls' = [calls EXCEPT ![c].pc = IF auth.ok THEN "authenticated" ELSE "rejected",
                              ![c].r = auth]
    /\ UNCHANGED <<users, nextId, jwtSecret, nowMs, held, res, tasks, taskSeq>>

Verify(c) ==
    /\ calls[c].pc = "verifying"
    /\ Verified(c, RequireToken(calls[c].token))

\* the resolver of the procedure: its task handler gets ctx.auth.user.id
Handle(c, op) ==
    /\ calls[c].pc = "authenticated"
    /\ calls[c].runs = 0
    /\ calls' = [calls EXCEPT ![c].op = op, ![c].runs = 1, ![c].as = calls[c].r.user.id]
    /\ UNCHANGED <<users, nextId, jwtSecret, nowMs, held, res, tasks, taskSeq>>

InitRequest ==
    /\ users \in UserTables \ {<<>>}
    /\ nextId = Len(users) + 1
    /\ jwtSecret \in Secrets \cup {""}
    /\ nowMs = StartMs
    /\ held = NoHeld
    /\ res = Outcome("", Thrown("", <<>>), NoInput)
    /\ calls = NoCalls
    /\ tasks = <<>>
    /\ taskSeq = 1

NextRequest ==
    \/ \E c \in Callers, h \in RequestHeaders : Arrive(c, h)
    \/ \E c \in Callers : Enter(c)
    \/ \E c \in Callers : Verify(c)
    \/ \E c \in Callers, op \in Procedures : Handle(c, op)

SpecRequest == InitRequest /\ [][NextRequest]_vars

----------------------------------------------------------------------------
(* Tasks: tasksTable and the task handlers.  A nullable column holds <<>>   *)
(* for null and <<v>> for the value v.  The input of a handler is a record   *)
(* that has a field exactly when the field is not undefined.                 *)

MaxTasks == 2

Null    == <<>>
Some(v) == <<v>>

\* the columns of tasksTable that updateTask may set from its input
InputColumns == {"title", "description", "due_date", "priority", "is_completed"}

\* a task handler's result: the task(s) it returns, or the error it throws;
\* deleteTask's { success: true } is ok with no rows
TaskReturned(rows) == [ok |-> TRUE, err |-> "", rows |-> rows]
TaskThrown(err)    == [ok |-> FALSE, err |-> err, rows |-> <<>>]

TaskOutcome(op, r, input, userId) ==
    [op |-> op, ok |-> r.ok, err |-> r.err, rows |-> r.rows, in |-> input, as |-> userId]

ErrGetTask(id)     == "Task with ID " \o ToString(id) \o " not found or access denied"
ErrUpdateDenied    == "Task not found or access denied"
ErrUpdateFailed    == "Failed to update task"
ErrDeleteDenied    == "Task not found or does not belong to the authenticated user"

\* variant of the where clause: the task's id alone
OwnedById(t, id, userId) == t.id = id

\* where(and(eq(tasksTable.id, id), eq(tasksTable.user_id, userId)))
OwnedBy(t, id, userId) == t.id = id /\ t.user_id = userId

\* db.select().from(tasksTable).where(...)
SelectTask(id, userId) == SelectSeq(tasks, LAMBDA t : OwnedBy(t, id, userId))

getTask(input, userId) ==
    LET results == SelectTask(input.id, userId)
    IN  IF Len(results) = 0 THEN TaskThrown(ErrGetTask(input.id))
        ELSE TaskReturned(<<results[1]>>)

\* variant of updateData: a field given as null is left out as well
UpdateDataNotNull(input) ==
    [f \in {"updated_at"}
            \cup {g \in DOMAIN input \cap InputColumns :
                      g \in {"description", "due_date"} => input[g] # Null} |->
        IF f = "updated_at" THEN nowMs ELSE input[f]]

\* updateData: updated_at and the fields of the input that are not undefined
UpdateData(input) ==
    [f \in {"updated_at"} \cup (DOMAIN input \cap InputColumns) |->
        IF f = "updated_at" THEN nowMs ELSE input[f]]

\* one row after set(updateData)
SetColumns(t, data) == [f \in DOMAIN t |-> IF f \in DOMAIN data THEN data[f] ELSE t[f]]

\* variant of the update: the number of rows returned is not looked at
UpdateWhereUnchecked(id, userId, data) ==
    LET rows == [i \in 1..Len(tasks) |->
                    IF OwnedBy(tasks[i], id, userId) THEN SetColumns(tasks[i], data)
                    ELSE tasks[i]]
    IN  [r |-> TaskReturned(SelectSeq(rows, LAMBDA t : OwnedBy(t, id, userId))),
         rows |-> rows]

\* db.update(tasksTable).set(updateData).where(...).returning(): the result
\* of updateTask from there on, and the table after it
UpdateWhere(id, userId, data) ==
    LET rows   == [i \in 1..Len(tasks) |->
                      IF OwnedBy(tasks[i], id, userId) THEN SetColumns(tasks[i], data)
                      ELSE tasks[i]]
        result == SelectSeq(rows, LAMBDA t : OwnedBy(t, id, userId))
    IN  [r |-> IF Len(result) = 0 THEN TaskThrown(ErrUpdateFailed)
               ELSE TaskReturned(<<result[1]>>),
         rows |-> rows]

updateTask(input, userId) ==
    IF Len(SelectTask(input.id, userId)) = 0
    THEN [r |-> TaskThrown(ErrUpdateDenied), rows |-> tasks]
    ELSE UpdateWhere(input.id, userId, UpdateData(input))

\* db.delete(tasksTable).where(...): its result is not looked at
DeleteWhere(id, userId) ==
    [r |-> TaskReturned(<<>>),
     rows |-> SelectSeq(tasks, LAMBDA t : ~OwnedBy(t, id, userId))]

\* variant of deleteTask: the delete without the select before it
deleteTaskUnchecked(input, userId) == DeleteWhere(input.id, userId)

deleteTask(input, userId) ==
    IF Len(SelectTask(input.id, userId)) = 0
    THEN [r |-> TaskThrown(ErrDeleteDenied), rows |-> tasks]
    ELSE DeleteWhere(input.id, userId)

\* createTask as it stands: a task object with id 1 is returned and nothing
\* is written to tasksTable
createTask(input, userId) ==
    [r |-> TaskReturned(<<[id |-> 1, user_id |-> userId, title |-> input.title,
                           description |-> input.description, due_date |-> input.due_date,
                           priority |-> input.priority, is_completed |-> FALSE,
                           created_at |-> nowMs, updated_at |-> nowMs]>>),
     rows |-> tasks]

\* the row of db.insert(tasksTable).values(values): id from the serial,
\* due_date null, the timestamps from defaultNow()
TaskRow(values) ==
    [id |-> taskSeq, user_id |-> values.user_id, title |-> values.title,
     description |-> values.description, due_date |-> Null,
     priority |-> values.priority, is_completed |-> values.is_completed,
     created_at |-> nowMs, updated_at |-> nowMs]

\* the row the tests insert for a user
TaskValues(userId) ==
    [user_id |-> userId, title |-> "Original Task",
     description |-> Some("Original description"),
     priority |-> "Medium", is_completed |-> FALSE]

UserIds == {users[i].id : i \in 1..Len(users)}

\* ids of tasks that are, were or never were in the table
TaskIds == 1..(MaxTasks + 1)

DueDate == StartMs + DayMs

\* inputs of updateTask for a task id
UpdateInputs(id) ==
    {[id |-> id],
     [id |-> id, title |-> "Updated Task Title", description |-> Null,
      due_date |-> Some(DueDate), is_completed |-> TRUE]}

CreateInputs ==
    {[title |-> "Test Task", description |-> Some("A task for testing"),
      due_date |-> Some(DueDate), priority |-> "High"],
     [title |-> "Minimal Task", description |-> Null, due_date |-> Null, priority |-> "Low"]}

\* variant of the conditions of getTasks: a filter is applied when its value
\* is truthy
MatchesTruthy(t, input, userId) ==
    /\ t.user_id = userId
    /\ ("completed" \in DOMAIN input /\ input.completed) => t.is_completed = input.completed
    /\ "priority" \in DOMAIN input => t.priority = input.priority

\* and(...conditions): the user's tasks, filtered by what the input gives
Matches(t, input, userId) ==
    /\ t.user_id = userId
    /\ "completed" \in DOMAIN input => t.is_completed = input.completed
    /\ "priority" \in DOMAIN input => t.priority = input.priority

\* orderBy(desc(tasksTable.created_at))
Descending(rows) ==
    \A i \in 1..(Len(rows) - 1) : rows[i].created_at >= rows[i + 1].created_at

\* the results getTasks may return: the rows selected in any order that is
\* descending in created_at (rows of one created_at come in any order)
getTasks(input, userId) ==
    LET found == SelectSeq(tasks, LAMBDA t : Matches(t, input, userId))
    IN  {TaskReturned(rows) :
            rows \in {r \in {[i \in 1..Len(found) |-> found[p[i]]] :
                                p \in Permutations(1..Len(found))} : Descending(r)}}

\* a handler that ran from its call to its return
TaskDone(op, out, input, userId) ==
    /\ tasks' = out.rows
    /\ res' = TaskOutcome(op, out.r, input, userId)
    /\ UNCHANGED <<users, nextId, jwtSecret, nowMs, held, calls, taskSeq>>

InsertTask(values) ==
    /\ taskSeq <= MaxTasks
    /\ tasks' = Append(tasks, TaskRow(values))
    /\ taskSeq' = taskSeq + 1
    /\ res' = TaskOutcome("insert", TaskReturned(<<TaskRow(values)>>), values, values.user_id)
    /\ UNCHANGED <<users, nextId, jwtSecret, nowMs, held, calls>>

CreateTask(input, userId) == TaskDone("createTask", createTask(input, userId), input, userId)

GetTask(input, userId) ==
    TaskDone("getTask", [r |-> getTask(input, userId), rows |-> tasks], input, userId)

UpdateTask(input, userId) == TaskDone("updateTask", updateTask(input, userId), input, userId)

DeleteTask(input, userId) == TaskDone("deleteTask", deleteTask(input, userId), input, userId)

\* time passes between two calls; the task handlers are followed over one
\* such pause
Later ==
    /\ nowMs = StartMs
    /\ nowMs' = nowMs + TickMs
    /\ UNCHANGED <<users, nextId, jwtSecret, held, res, calls, tasks, taskSeq>>

GetTasks(input, userId) ==
    \E r \in getTasks(input, userId) :
        TaskDone("getTasks", [r |-> r, rows |-> tasks], input, userId)

\* inputs of getTasks: each filter given or not
QueryInputs ==
    {[x \in {} |-> x]}
        \cup {[completed |-> c] : c \in BOOLEAN}
        \cup {[priority |-> p] : p \in {"Low", "High"}}
        \cup {[completed |-> c, priority |-> p] : c \in BOOLEAN, p \in {"Low", "High"}}

\* a stored task of a user with the columns getTasks looks at
QueryRow(id, values, createdAt) ==
    [id |-> id, user_id |-> values.user_id, title |-> values.title,
     description |-> values.description, due_date |-> Null,
     priority |-> values.priority, is_completed |-> values.is_completed,
     created_at |-> createdAt, updated_at |-> createdAt]

QueryValues ==
    {[TaskValues(u) EXCEPT !.priority = p, !.is_completed = c] :
        u \in 1..2, p \in {"Low", "High"}, c \in BOOLEAN}

\* the tables of at most MaxTasks tasks, created at one time or another
QueryTables ==
    UNION {{[i \in 1..n |-> QueryRow(i, f[i][1], f[i][2])] :
               f \in [1..n -> QueryValues \X {StartMs, StartMs + TickMs}]} : n \in 0..MaxTasks}

InitQuery ==
    /\ users = <<StoredRow(1, EmailLower), StoredRow(2, EmailUpper)>>
    /\ nextId = Len(users) + 1
    /\ jwtSecret = ""
    /\ nowMs = StartMs + TickMs
    /\ held = NoHeld
    /\ res = Outcome("", Thrown("", <<>>), NoInput)
    /\ calls = NoCalls
    /\ tasks \in QueryTables
    /\ taskSeq = Len(tasks) + 1

NextQuery == \E u \in UserIds, i \in QueryInputs : GetTasks(i, u)

SpecQuery == InitQuery /\ [][NextQuery]_vars

\* updateTask or deleteTask up to the check of its select
TaskSelect(c, op, input, userId) ==
    /\ calls[c].pc = "idle"
    /\ \A d \in Callers : d < c => calls[d].pc # "idle"
    /\ calls' = [calls EXCEPT ![c] =
          [IdleCall EXCEPT
              !.op = op, !.in = input, !.as = userId,
              !.pc = IF Len(SelectTask(input.id, userId)) = 0 THEN "done" ELSE "selected",
              !.r = TaskThrown(IF Len(SelectTask(input.id, userId)) > 0 THEN ""
                               ELSE IF op = "updateTask" THEN ErrUpdateDenied
                               ELSE ErrDeleteDenied)]]
    /\ UNCHANGED <<users, nextId, jwtSecret, nowMs, held, res, tasks, taskSeq>>

\* the call after its update or delete statement
TaskWritten(c, out) ==
    /\ tasks' = out.rows
    /\ calls' = [calls EXCEPT ![c].pc = "done", ![c].r = out.r]
    /\ UNCHANGED <<users, nextId, jwtSecret, nowMs, held, res, taskSeq>>

\* updateTask or deleteTask from its second statement to its end
TaskWrite(c) ==
    /\ calls[c].pc = "selected"
    /\ TaskWritten(c, IF calls[c].op = "updateTask"
                      THEN UpdateWhere(calls[c].in.id, calls[c].as, UpdateData(calls[c].in))
                      ELSE DeleteWhere(calls[c].in.id, calls[c].as))

InitTaskRace ==
    /\ users = <<StoredRow(1, EmailLower), StoredRow(2, EmailUpper)>>
    /\ nextId = Len(users) + 1
    /\ jwtSecret = ""
    /\ nowMs = StartMs + TickMs
    /\ held = NoHeld
    /\ res = Outcome("", Thrown("", <<>>), NoInput)
    /\ calls = NoCalls
    /\ tasks = [i \in 1..MaxTasks |-> QueryRow(i, TaskValues(users[1].id), StartMs)]
    /\ taskSeq = Len(tasks) + 1

NextTaskRace ==
    \/ \E c \in Callers, u \in UserIds, id \in TaskIds :
          \/ TaskSelect(c, "deleteTask", [id |-> id], u)
          \/ \E i \in UpdateInputs(id) : TaskSelect(c, "updateTask", i, u)
    \/ \E c \in Callers : TaskWrite(c)

SpecTaskRace == InitTaskRace /\ [][NextTaskRace]_vars

InitTasks ==
    /\ users = <<StoredRow(1, EmailLower), StoredRow(2, EmailUpper)>>
    /\ nextId = Len(users) + 1
    /\ jwtSecret = ""
    /\ nowMs = StartMs
    /\ held = NoHeld
    /\ res = Outcome("", Thrown("", <<>>), NoInput)
    /\ calls = NoCalls
    /\ tasks = <<>>
    /\ taskSeq = 1

NextTasks ==
    \/ \E u \in UserIds : InsertTask(TaskValues(u))
    \/ \E u \in UserIds \cup {nextId}, i \in CreateInputs : CreateTask(i, u)
    \/ \E u \in UserIds, id \in TaskIds : GetTask([id |-> id], u)
    \/ \E u \in UserIds, id \in TaskIds : \E i \in UpdateInputs(id) : UpdateTask(i, u)
    \/ \E u \in UserIds, id \in TaskIds : DeleteTask([id |-> id], u)
    \/ Later

SpecTasks == InitTasks /\ [][NextTasks]_vars

----------------------------------------------------------------------------
(* Comparison of a presented signature or hash with the expected one *)

MaxCompared == 3

ComparedChars == {"a", "b"}

\* the texts of up to MaxCompared characters
ComparedTexts == UNION {[1..n -> ComparedChars] : n \in 0..MaxCompared}

\* the length of the longest common prefix of two texts
CommonPrefix(a, b) ==
    LET same == {n \in 0..Len(a) : n <= Len(b) /\ \A k \in 1..n : a[k] = b[k]}
    IN  CHOOSE n \in same : \A m \in same : m <= n

\* the outcome of one comparison and the characters it looked at
Compared(eq, examined) == [eq |-> eq, examined |-> examined]

\* a === b on strings: lengths first, then character by character up to
\* the first difference
StrictEquals(a, b) ==
    IF Len(a) # Len(b) THEN Compared(FALSE, 0)
    ELSE IF a = b THEN Compared(TRUE, Len(a))
    ELSE Compared(FALSE, CommonPrefix(a, b) + 1)

\* crypto.timingSafeEqual on buffers of one length, with the positions it
\* looks at: all of them
timingSafeScan(a, b) == Compared(a = b, Len(a))

\* the comparison at the end of verifySignature
verifySignatureCompare(signature, expectedSignature) ==
    StrictEquals(signature, expectedSignature)

\* the comparison of verifyPassword: the length check, then timingSafeEqual
verifyPasswordCompare(hashedInput, hash) ==
    IF Len(hashedInput) # Len(hash) THEN Compared(FALSE, 0)
    ELSE timingSafeScan(hashedInput, hash)

ComparedOutcome(op, expected, first, second, r1, r2) ==
    [op |-> op, expected |-> expected, first |-> first, second |-> second,
     r1 |-> r1, r2 |-> r2]

\* two presented values compared with one expected value
CompareDone(op, expected, first, second, r1, r2) ==
    /\ res.op = ""
    /\ res' = ComparedOutcome(op, expected, first, second, r1, r2)
    /\ UNCHANGED <<users, nextId, jwtSecret, nowMs, held, calls, tasks, taskSeq>>

CompareSignatures(expected, first, second) ==
    CompareDone("verifySignature", expected, first, second,
                verifySignatureCompare(first, expected),
                verifySignatureCompare(second, expected))

CompareHashes(expected, first, second) ==
    CompareDone("verifyPassword", expected, first, second,
                verifyPasswordCompare(first, expected),
                verifyPasswordCompare(second, expected))

InitCompare ==
    /\ users = <<>>
    /\ nextId = 1
    /\ jwtSecret = ""
    /\ nowMs = StartMs
    /\ held = NoHeld
    /\ res = ComparedOutcome("", <<>>, <<>>, <<>>, Compared(FALSE, 0), Compared(FALSE, 0))
    /\ calls = NoCalls
    /\ tasks = <<>>
    /\ taskSeq = 1

NextCompare ==
    \E expected \in ComparedTexts, first \in ComparedTexts, second \in ComparedTexts :
        \/ CompareSignatures(expected, first, second)
        \/ CompareHashes(expected, first, second)

SpecCompare == InitCompare /\ [][NextCompare]_vars

----------------------------------------------------------------------------
(* Properties of the running system (Spec) *)

\* a row of usersTable that register made for these credentials
RegisteredWith(u, email, password) ==
    /\ u.email = email
    /\ u.password_hash.kind = "pbkdf2"
    /\ u.password_hash.pw = password

\* C1: after a successful register, login with the same email and password
\* succeeds and returns the id register returned (the id of the row it made).
C1_LoginAfterRegister ==
    res.op = "login" =>
        \A i \in 1..Len(users) :
            RegisteredWith(users[i], res.in.email, res.in.password)
                => res.ok /\ res.user.id = users[i].id

\* C2: a token returned by a successful register or login, presented as
\* "Bearer " + token before its expiry (a day after it was issued), is accepted
\* by the authentication step with the user it was issued to.
C2_IssuedTokenAccepted ==
    (/\ res.op = "authenticate"
     /\ res.in.src \in {"register", "login"}
     /\ res.in.token = held.token
     /\ nowMs < held.at + DayMs)
        => res.ok /\ res.user.id = held.userId

\* C3: with no JWT secret configured, register, login, generateToken and
\* verifyToken all fail with the missing-secret error.
C3_NoSecretNoToken ==
    (jwtSecret = "" /\ res.op \in {"register", "login", "generateToken", "verifyToken"})
        => ~res.ok /\ res.err = ErrMissingSecret

\* C13: a failing login gives one and the same result, the error 'Invalid
\* email or password' and nothing else, whether the email is not stored or is
\* stored with another password.
C13_OneLoginError ==
    (res.op = "login" /\ ~res.ok)
        => [res EXCEPT !.in = NoInput]
               = Outcome("login", Thrown(ErrCredentials, <<>>), NoInput)

\* with one email stored under a password login accepts, a login with the
\* other email has failed
C13_Witness ==
    /\ res.op = "login"
    /\ ~res.ok
    /\ FindByEmail(res.in.email) = <<>>
    /\ \E i \in 1..Len(users) : users[i].password_hash = sha256Hex("pw1")

\* C18: the user object in a result of register, login or verifyToken (also
\* behind protectedProcedure) has exactly the fields id, email, name,
\* created_at and updated_at: password_hash is never in it.
C18_NoPasswordHash ==
    (res.op \in {"register", "login", "verifyToken", "authenticate"} /\ res.ok)
        => DOMAIN res.user = {"id", "email", "name", "created_at", "updated_at"}

\* a login has returned the user of a stored row that holds a password_hash
C18_Witness ==
    /\ res.op = "login" /\ res.ok
    /\ \E i \in 1..Len(users) :
          /\ users[i].id = res.user.id
          /\ "password_hash" \in DOMAIN users[i]
          /\ users[i].password_hash = sha256Hex(res.in.password)

\* the claims a client reads from the token it holds: the second segment of
\* a dotted token, or the whole of a token without dots
IssuedClaims ==
    LET parts == Split(held.token, ".")
    IN  IF Len(parts) = 1 THEN JSONparse(BufferToString(FromBase64(held.token))).v
        ELSE JSONparse(base64UrlDecode(parts[2])).v

\* iat and exp are whole seconds, iat the second of issue, exp a day later
SecondsClaims(claims) ==
    LET iat == Get(claims, KeyIat)
        exp == Get(claims, KeyExp)
    IN  /\ iat.t = "num" /\ iat.f = <<>>
        /\ exp.t = "num" /\ exp.f = <<>>
        /\ iat.n = held.at \div MsPerSecond
        /\ exp.n = iat.n + DaySeconds

\* C19: every token issued by register, login or generateToken carries iat
\* and exp in the same unit, whole seconds, with exp = iat + 24 hours.
C19_IatExpSeconds ==
    held.by \in {"register", "login", "generateToken"} => SecondsClaims(IssuedClaims)

\* C14: a second successful login of a user returns a token different from
\* the one the first login returned, and both are accepted by verifyToken
\* while the exp of the first has not passed.
C14_IndependentLoginTokens ==
    [][\A e \in Emails, p \in LoginPasswords, x \in Randoms :
          (/\ Login(e, p, x)
           /\ res'.ok
           /\ held.by = "login"
           /\ held.userId = res'.user.id
           /\ NowSeconds <= held.at \div MsPerSecond + DaySeconds)
              => /\ res'.token # held.token
                 /\ verifyToken(held.token).ok
                 /\ verifyToken(res'.token).ok]_vars

\* the claims in the payload segment of the token the client holds
HeldClaims == JSONparse(base64UrlDecode(Split(held.token, ".")[2])).v

\* C4: verifyToken on a token generateToken made for a stored user, under the
\* same secret at a time with iat <= now < exp, succeeds with the id and email
\* of the userId and email claims in the token.
C4_RoundTrip ==
    (/\ res.op = "verifyToken"
     /\ res.in.src = "generateToken"
     /\ res.in.token = held.token
     /\ Get(HeldClaims, KeyIat).n <= NowSeconds
     /\ NowSeconds < Get(HeldClaims, KeyExp).n)
        => /\ res.ok
           /\ JInt(res.user.id) = Get(HeldClaims, KeyUserId)
           /\ JStr(res.user.email) = Get(HeldClaims, KeyEmail)
           /\ res.user.id = held.userId

\* a generated token verified half a day after it was issued
C4_Witness ==
    /\ res.op = "verifyToken"
    /\ res.in.src = "generateToken"
    /\ res.ok
    /\ Get(HeldClaims, KeyIat).n < NowSeconds
    /\ NowSeconds < Get(HeldClaims, KeyExp).n
    /\ JInt(res.user.id) = Get(HeldClaims, KeyUserId)

\* what register(email, ...) must have done, from the table before it
RegisterPost(email, name) ==
    LET stored == \E i \in 1..Len(users) : users[i].email = email
    IN  /\ res'.op = "register"
        /\ (~res'.ok) <=> stored
        /\ (res'.err = ErrExists) <=> stored
        /\ ~res'.ok => users' = users
        /\ res'.ok =>
              /\ Len(users') = Len(users) + 1
              /\ SubSeq(users', 1, Len(users)) = users
              /\ users'[Len(users')].email = email
              /\ users'[Len(users')].name = name
              /\ res'.user.email = email

\* C10: register fails with 'already exists' exactly when a user with the very
\* same email string is stored; a failed register leaves the table as it was,
\* a successful one appends exactly one user with the given email and name.
C10_RegisterConflict ==
    [][\A e \in Emails, p \in Passwords, n \in Names, s \in Salts :
          Register(e, p, n, s) => RegisterPost(e, n)]_vars

\* both spellings of an email registered, and a third register refused
C10_Witness ==
    /\ res.op = "register"
    /\ res.err = ErrExists
    /\ Len(users) = 2
    /\ RegisteredWith(users[1], EmailLower, "pw1")
    /\ RegisteredWith(users[2], EmailUpper, "pw1")

----------------------------------------------------------------------------
(* Properties of verifyToken on presented tokens (SpecVerify) *)

RequiredClaims == {KeyUserId, KeyEmail, KeyIat, KeyExp}

\* the check verifyToken ended at comes after the one named
ReachedPast(check) == Len(res.reached) > IndexOf(Checks, check)

\* held.token is held.from, a validly signed token, with exactly one
\* character of its payload segment replaced
OneCharReplaced ==
    /\ held.by = "tampered"
    /\ jwtSecret # ""
    /\ verifySignature(held.from, jwtSecret)
    /\ Len(held.token) = Len(held.from)
    /\ \E p \in PayloadPlaces(held.from) :
          /\ held.token[p] # held.from[p]
          /\ \A q \in (1..Len(held.from)) \ {p} : held.token[q] = held.from[q]

\* the replacement character is the segment separator
ReplacedByDot == \E p \in PayloadPlaces(held.from) : held.token[p] = "."

\* C5 as stated: a validly signed token with one character of its payload
\* segment replaced fails with the invalid-signature error, at the signature
\* check.
C5_TamperIsSignatureError ==
    (res.op = "verifyToken" /\ OneCharReplaced)
        => ~res.ok /\ res.err = ErrSignature /\ res.reached = UpTo("signature")

\* C5: a validly signed token with one character of its payload segment
\* replaced is never accepted and never reaches payload parsing, the time
\* checks or the lookup: it fails with the invalid-signature error, or with
\* the invalid-format error when the replacement character is '.'.
C5_TamperRejected ==
    (res.op = "verifyToken" /\ OneCharReplaced)
        => /\ ~res.ok
           /\ ~ReachedPast("signature")
           /\ res.err = (IF ReplacedByDot THEN ErrFormat ELSE ErrSignature)

\* a payload character replaced by '.', refused as a format error
C5_Witness ==
    /\ res.op = "verifyToken"
    /\ OneCharReplaced
    /\ ReplacedByDot
    /\ res.err = ErrFormat

\* the token held was made from the text held.from as payload and signed
\* with the configured secret
SignedCrafted ==
    /\ held.by \in {"crafted", "headerless"}
    /\ jwtSecret # ""
    /\ held.key = jwtSecret

FromPayload == JSONparse(held.from)
FromClaim(key) == Get(FromPayload.v, key)

AllClaimsPresent ==
    FromPayload.ok /\ \A k \in RequiredClaims : FromClaim(k) # JUndef

\* C6: for a correctly signed token with all claims present, the time checks
\* pass exactly when iat <= now <= exp; 'Token expired' iff exp < now, and
\* 'Token not active' iff exp >= now and iat > now.
C6_TimeChecks ==
    (res.op = "verifyToken" /\ SignedCrafted /\ AllClaimsPresent)
        => /\ ReachedPast("iat")
                <=> (FromClaim(KeyIat).n <= NowSeconds /\ NowSeconds <= FromClaim(KeyExp).n)
           /\ (res.err = ErrExpired) <=> (FromClaim(KeyExp).n < NowSeconds)
           /\ (res.err = ErrNotActive)
                <=> (FromClaim(KeyExp).n >= NowSeconds /\ FromClaim(KeyIat).n > NowSeconds)

\* the same for the tokens whose four claims are all truthy, which is what the
\* required-field check lets through
TimeChecksOfTruthyClaims ==
    (/\ res.op = "verifyToken" /\ SignedCrafted /\ AllClaimsPresent
     /\ \A k \in RequiredClaims : ~Falsy(FromClaim(k)))
        => /\ ReachedPast("iat")
                <=> (FromClaim(KeyIat).n <= NowSeconds /\ NowSeconds <= FromClaim(KeyExp).n)
           /\ (res.err = ErrExpired) <=> (FromClaim(KeyExp).n < NowSeconds)
           /\ (res.err = ErrNotActive)
                <=> (FromClaim(KeyExp).n >= NowSeconds /\ FromClaim(KeyIat).n > NowSeconds)

ThreeNonEmpty(token) ==
    LET parts == Split(token, ".")
    IN  Len(parts) = 3 /\ \A i \in 1..3 : parts[i] # <<>>

\* C7: with a secret configured, verifyToken fails with the invalid-format
\* error for every token that does not split on '.' into exactly three
\* non-empty segments.
C7_FormatError ==
    (res.op = "verifyToken" /\ jwtSecret # "" /\ ~ThreeNonEmpty(res.in.token))
        => ~res.ok /\ res.err = ErrFormat

\* C8: a correctly signed three-segment token whose payload is not parseable
\* JSON, or lacks one of userId, email, iat, exp, is rejected with 'Invalid
\* token payload' before any expiry check or lookup.
C8_BadPayload ==
    (res.op = "verifyToken" /\ SignedCrafted /\ ~AllClaimsPresent)
        => ~res.ok /\ res.err = ErrPayload /\ ~ReachedPast("fields")

\* the token held passes every check of verifyToken before the lookup
EarlierChecksPass ==
    /\ SignedCrafted
    /\ AllClaimsPresent
    /\ \A k \in RequiredClaims : ~Falsy(FromClaim(k))
    /\ FromClaim(KeyIat).n <= NowSeconds
    /\ NowSeconds <= FromClaim(KeyExp).n

\* the rows whose id is the userId claim of the token held
RowsOfClaim == {i \in 1..Len(users) : JInt(users[i].id) = Get(HeldClaims, KeyUserId)}

\* C9: verifyToken returns an AuthContext only for a stored user whose id is
\* the userId claim and whose email is the email claim; with the earlier
\* checks passed it fails with 'User not found' when no row has the id and
\* with 'Token user mismatch' when the row's email differs.
C9_UserLookup ==
    res.op = "verifyToken" =>
        /\ res.ok =>
              \E i \in RowsOfClaim :
                  /\ JStr(users[i].email) = Get(HeldClaims, KeyEmail)
                  /\ res.user = PublicUser(users[i])
        /\ EarlierChecksPass =>
              /\ RowsOfClaim = {} => res.err = ErrUserNotFound
              /\ (\E i \in RowsOfClaim : JStr(users[i].email) # Get(HeldClaims, KeyEmail))
                    => res.err = ErrMismatch
              /\ (\E i \in RowsOfClaim : JStr(users[i].email) = Get(HeldClaims, KeyEmail))
                    => res.ok

\* a token for a stored id carrying the other spelling of the email
C9_Witness ==
    /\ res.op = "verifyToken"
    /\ EarlierChecksPass
    /\ RowsOfClaim # {}
    /\ Get(HeldClaims, KeyEmail) = JStr(EmailUpper)
    /\ \A i \in RowsOfClaim : users[i].email = EmailLower
    /\ res.err = ErrMismatch

\* C30: a correctly signed token whose payload is an object with all four
\* claims passes the required-field check whatever the claims' values are;
\* 'Invalid token payload' comes from that check only when a claim is absent.
C30_PresentClaimsPass ==
    (res.op = "verifyToken" /\ SignedCrafted /\ FromPayload.ok /\ FromPayload.v.t = "obj")
        => /\ AllClaimsPresent => (ReachedPast("fields") /\ res.err # ErrPayload)
           /\ res.err = ErrPayload => ~AllClaimsPresent

\* the segments of the token verified, and its payload when it has three
TokenParts   == Split(res.in.token, ".")
TokenPayload == JSONparse(base64UrlDecode(TokenParts[2]))

\* the payload segment parses to something whose properties can be read
Readable == Len(TokenParts) = 3 /\ TokenPayload.ok /\ TokenPayload.v.t # "null"

\* the token verified violates the check named, taken by itself
Violates(check) ==
    CASE check = "secret"    -> jwtSecret = ""
      [] check = "format"    -> Len(TokenParts) # 3
      [] check = "signature" -> Len(TokenParts) = 3 /\ ~verifySignature(res.in.token, jwtSecret)
      [] check = "parse"     -> Len(TokenParts) = 3 /\ ~TokenPayload.ok
      [] check = "fields"    ->
            /\ Len(TokenParts) = 3 /\ TokenPayload.ok
            /\ \/ TokenPayload.v.t = "null"
               \/ \E k \in RequiredClaims : Falsy(Get(TokenPayload.v, k))
      [] check = "exp"       -> Readable /\ JsLess(Get(TokenPayload.v, KeyExp), NowSeconds)
      [] check = "iat"       -> Readable /\ JsGreater(Get(TokenPayload.v, KeyIat), NowSeconds)
      [] check = "lookup"    -> Readable /\ SelectById(Get(TokenPayload.v, KeyUserId)) = <<>>
      [] check = "email"     ->
            /\ Readable
            /\ \E i \in 1..Len(users) :
                  /\ JInt(users[i].id) = Get(TokenPayload.v, KeyUserId)
                  /\ JStr(users[i].email) # Get(TokenPayload.v, KeyEmail)

ViolatedChecks == {i \in 1..Len(Checks) : Violates(Checks[i])}

FirstViolated == CHOOSE i \in ViolatedChecks : \A j \in ViolatedChecks : i <= j

\* the error of each check
ErrorOf(check) ==
    CASE check = "secret"    -> ErrMissingSecret
      [] check = "format"    -> ErrFormat
      [] check = "signature" -> ErrSignature
      [] check = "parse"     -> ErrPayload
      [] check = "fields"    -> IF TokenPayload.v.t = "null" THEN ErrTypeError ELSE ErrPayload
      [] check = "exp"       -> ErrExpired
      [] check = "iat"       -> ErrNotActive
      [] check = "lookup"    -> ErrUserNotFound
      [] check = "email"     -> ErrMismatch

\* C27: verifyToken applies its checks in the order secret, format,
\* signature, payload parse, required claims, expiry, not-before, user
\* lookup, email match, and fails at the first check the token violates with
\* that check's error; the users table is read only when no check before
\* the lookup is violated.
C27_CheckOrder ==
    res.op = "verifyToken" =>
        /\ res.ok <=> ViolatedChecks = {}
        /\ ~res.ok => /\ res.reached = SubSeq(Checks, 1, FirstViolated)
                      /\ res.err = ErrorOf(Checks[FirstViolated])
        /\ ReachedPast("iat") <=> \A i \in ViolatedChecks : i > IndexOf(Checks, "iat")

\* an expired token that is not yet active either, for a user that is not
\* stored, was refused as expired
C27_Witness ==
    /\ res.op = "verifyToken"
    /\ {IndexOf(Checks, "exp"), IndexOf(Checks, "iat"), IndexOf(Checks, "lookup")}
            \subseteq ViolatedChecks
    /\ res.err = ErrExpired

----------------------------------------------------------------------------
(* Properties of interleaved register calls (SpecRace) *)

\* C11: in every reachable state, after any interleaving of register calls,
\* no two stored users have the same email and no two have the same id.
C11_UniqueUsers ==
    \A i, j \in 1..Len(users) :
        i # j => users[i].email # users[j].email /\ users[i].id # users[j].id

\* two calls with one email both passed the existence check; the index let one
\* row in and refused the other
C11_Witness ==
    \E c, d \in Callers :
        /\ c # d
        /\ calls[c].in.email = calls[d].in.email
        /\ calls[c].pc = "done" /\ calls[c].r.ok
        /\ calls[d].pc = "done" /\ calls[d].r.err = ErrUnique
        /\ Len(FindByEmail(calls[c].in.email)) = 1

\* C12: two register calls with the same email never both pass the existence
\* check; exactly one of them succeeds and the other fails with the 'already
\* exists' error of a sequential duplicate registration.
C12_AtomicRegister ==
    \A c, d \in Callers :
        (c # d /\ calls[c].op = "register" /\ calls[d].op = "register"
             /\ calls[c].in.email = calls[d].in.email)
            => /\ ~(calls[c].pc = "selected" /\ calls[d].pc = "selected")
               /\ (calls[c].pc = "done" /\ calls[d].pc = "done")
                     => /\ calls[c].r.ok # calls[d].r.ok
                        /\ ~calls[d].r.ok => calls[d].r.err = ErrExists

----------------------------------------------------------------------------
(* Properties of login against any stored hash (SpecLogin) *)

\* C20: whatever text the stored password_hash is, malformed ones included,
\* password verification returns false for it and login fails with 'Invalid
\* email or password'; login never fails with any other error.
C20_MalformedHashFailsClosed ==
    res.op = "login" =>
        /\ ~res.ok => res.err = ErrCredentials
        /\ \A i \in 1..Len(users) :
              (users[i].email = res.in.email /\ users[i].password_hash.kind = "text")
                  => ~res.ok

----------------------------------------------------------------------------
(* Properties of requests to the protected procedures (SpecRequest) *)

\* the header begins with the seven characters of "Bearer "
BeginsWithBearer(authHeader) ==
    /\ authHeader.present
    /\ Len(authHeader.text) >= Len(BearerPrefix)
    /\ \A i \in 1..Len(BearerPrefix) : authHeader.text[i] = BearerPrefix[i]

\* the calls whose middleware has taken the token from the header
Entered == {c \in Callers : calls[c].pc \in {"verifying", "authenticated", "rejected"}}

\* C16: extractTokenFromHeader returns null exactly when the header is
\* absent, empty or does not begin with "Bearer "; otherwise it returns the
\* header without those seven characters and nothing else changed.
C16_ExtractToken ==
    \A c \in Entered :
        /\ calls[c].token.none
              <=> \/ ~calls[c].header.present
                  \/ calls[c].header.text = <<>>
                  \/ ~BeginsWithBearer(calls[c].header)
        /\ ~calls[c].token.none => BearerPrefix \o calls[c].token.text = calls[c].header.text

\* tokens have been taken from a header with the prefix, from one with a
\* lower-case scheme and from one without the space
C16_Witness ==
    /\ \E c \in Entered : ~calls[c].token.none /\ Len(calls[c].token.text) > 1
    /\ \E c \in Entered :
          /\ calls[c].token.none
          /\ calls[c].header.present
          /\ Len(calls[c].header.text) > Len(BearerPrefix)

\* the calls that came with the header "Bearer " and have been answered
BareBearer ==
    {c \in Callers : calls[c].header = Header(BearerPrefix)
                       /\ calls[c].pc \in {"authenticated", "rejected"}}

StatusSteps ==
    {<<"idle", "anonymous">>, <<"anonymous", "verifying">>,
     <<"verifying", "authenticated">>, <<"verifying", "rejected">>}

\* one step of one request: a is the call before the step, b after it, and
\* auth what verifyToken gives for the request's token before the step
RequestStep(a, b, auth) ==
    /\ a.pc = b.pc \/ <<a.pc, b.pc>> \in StatusSteps
    /\ (a.pc = "verifying" /\ b.pc = "authenticated")
          => ~a.token.none /\ auth.ok /\ b.r = auth
    /\ (a.pc = "verifying" /\ b.pc = "rejected")
          => /\ a.token.none \/ ~auth.ok
             /\ b.r.err \in {ErrTokenRequired, ErrUnauthorized}
    /\ b.runs \in {a.runs, a.runs + 1} /\ b.runs <= 1
    /\ b.runs > a.runs
          => /\ a.pc = "authenticated" /\ b.pc = "authenticated"
             /\ b.op \in Procedures
             /\ b.as = a.r.user.id
    /\ b.pc # "authenticated" => b.runs = 0

\* C17: a request goes Anonymous -> Verifying -> Authenticated or Rejected
\* and never back; its task handler runs at most once, only after
\* verifyToken returned an AuthContext for it, with that context's user.id;
\* otherwise it ends with UNAUTHORIZED and no task handler runs.
C17_RequestLifecycle ==
    [][\A c \in Callers :
          RequestStep(calls[c], calls'[c], verifyToken(calls[c].token.text))]_vars

\* one request has run its task handler as the user of its token while
\* another was rejected
C17_Witness ==
    \E c, d \in Callers :
        /\ calls[c].runs = 1 /\ calls[c].as = 2
        /\ calls[d].pc = "rejected" /\ calls[d].r.err = ErrUnauthorized

----------------------------------------------------------------------------
(* Properties of getTasks on stored tables (SpecQuery) *)

\* the task is one the call whose result is in res' asked for
Wanted(t) ==
    /\ t.user_id = res'.as
    /\ \A c \in BOOLEAN : res'.in = [completed |-> c] => t.is_completed = c
    /\ \A p \in {"Low", "Medium", "High"} : res'.in = [priority |-> p] => t.priority = p
    /\ \A c \in BOOLEAN, p \in {"Low", "Medium", "High"} :
          res'.in = [completed |-> c, priority |-> p] => (t.is_completed = c /\ t.priority = p)

\* C23: getTasks returns exactly the stored tasks of the user that have the
\* completed and the priority the input gives, each once, ordered by
\* created_at descending, and leaves the store unchanged.
C23_GetTasks ==
    [][(res' # res /\ res'.op = "getTasks")
          => /\ res'.ok
             /\ tasks' = tasks
             /\ \A k \in 1..Len(tasks) :
                   Wanted(tasks[k]) <=> \E j \in 1..Len(res'.rows) : res'.rows[j] = tasks[k]
             /\ \A j \in 1..Len(res'.rows) : \E k \in 1..Len(tasks) : res'.rows[j] = tasks[k]
             /\ \A i, j \in 1..Len(res'.rows) : i < j => res'.rows[i].id # res'.rows[j].id
             /\ \A i, j \in 1..Len(res'.rows) :
                   i < j => res'.rows[i].created_at >= res'.rows[j].created_at]_vars

\* the open tasks were asked for and the newer of two, stored second, came
\* first
C23_Witness ==
    /\ res.op = "getTasks" /\ res.in = [completed |-> FALSE]
    /\ Len(res.rows) > 1
    /\ res.rows[1].created_at > res.rows[2].created_at
    /\ res.rows[1].id > res.rows[2].id

----------------------------------------------------------------------------
(* Properties of the task handlers called one at a time (SpecTasks) *)

\* the step is a call of the handler op: its result is in res'
Called(op) == res' # res /\ res'.op = op

\* the rows of a table that are not the user's
OthersRows(rows, userId) == SelectSeq(rows, LAMBDA t : t.user_id # userId)

\* the rows of a table with another id
OtherRows(rows, id) == SelectSeq(rows, LAMBDA t : t.id # id)

\* the table holds a task of that id for another user
ForeignTask(id, userId) ==
    \E k \in 1..Len(tasks) : tasks[k].id = id /\ tasks[k].user_id # userId

\* the table holds a task of that id for the user
OwnTask(id, userId) ==
    \E k \in 1..Len(tasks) : tasks[k].id = id /\ tasks[k].user_id = userId

\* C21: no getTask, updateTask or deleteTask call made with userId u returns,
\* modifies or removes a task of another user; on another user's task the
\* call fails with the not-found/access-denied error and the table is as
\* it was.
C21_OwnerIsolation ==
    [][(Called("getTask") \/ Called("updateTask") \/ Called("deleteTask"))
          => /\ OthersRows(tasks', res'.as) = OthersRows(tasks, res'.as)
             /\ \A k \in 1..Len(res'.rows) : res'.rows[k].user_id = res'.as
             /\ ForeignTask(res'.in.id, res'.as)
                   => /\ ~res'.ok
                      /\ res'.err \in {ErrGetTask(res'.in.id), ErrUpdateDenied, ErrDeleteDenied}
                      /\ tasks' = tasks]_vars

\* an update of another user's task has been refused
C21_Witness ==
    /\ res.op = "updateTask" /\ ~res.ok
    /\ ForeignTask(res.in.id, res.as)

\* C22: updateTask on a task of the caller changes exactly the fields that
\* are in the input (null sets null, an omitted field keeps its value), sets
\* updated_at to the current time and leaves id, user_id, created_at and
\* every other task as they were.
C22_UpdateFrame ==
    [][(Called("updateTask") /\ OwnTask(res'.in.id, res'.as))
          => /\ res'.ok
             /\ Len(tasks') = Len(tasks)
             /\ \A k \in 1..Len(tasks) :
                   IF tasks[k].id = res'.in.id
                   THEN /\ \A f \in InputColumns :
                             tasks'[k][f] = IF f \in DOMAIN res'.in THEN res'.in[f]
                                            ELSE tasks[k][f]
                        /\ tasks'[k].updated_at = nowMs
                        /\ tasks'[k].id = tasks[k].id
                        /\ tasks'[k].user_id = tasks[k].user_id
                        /\ tasks'[k].created_at = tasks[k].created_at
                        /\ res'.rows = <<tasks'[k]>>
                   ELSE tasks'[k] = tasks[k]]_vars

\* a description was set to null, and an update with only the id was made
\* later than the task was created, next to another task
C22_Witness ==
    /\ res.op = "updateTask" /\ res.ok /\ DOMAIN res.in = {"id"}
    /\ Len(tasks) > 1
    /\ res.rows[1].updated_at > res.rows[1].created_at
    /\ res.rows[1].description = Null

\* C24: createTask for an existing user stores one new task with the given
\* title, description, due_date and priority, user_id = u and is_completed
\* false under a fresh id, and the task is then in the store; for a user
\* that does not exist it fails and stores nothing.
C24_CreateStores ==
    [][Called("createTask")
          => IF res'.as \in UserIds
             THEN /\ res'.ok
                  /\ tasks' = Append(tasks, res'.rows[1])
                  /\ \A k \in 1..Len(tasks) : tasks[k].id # res'.rows[1].id
                  /\ \A f \in DOMAIN res'.in : res'.rows[1][f] = res'.in[f]
                  /\ res'.rows[1].user_id = res'.as
                  /\ res'.rows[1].is_completed = FALSE
             ELSE ~res'.ok /\ tasks' = tasks]_vars

\* C25: called one at a time, deleteTask on a task of the caller succeeds
\* and removes that task and no other; on an id that is not in the table
\* (also one deleted before) it fails with the task-not-found error and the
\* table is as it was.
C25_DeleteFrame ==
    [][Called("deleteTask")
          => IF OwnTask(res'.in.id, res'.as)
             THEN res'.ok /\ tasks' = OtherRows(tasks, res'.in.id)
             ELSE ~res'.ok /\ res'.err = ErrDeleteDenied /\ tasks' = tasks]_vars

\* a task that was deleted has been deleted again, with another task left
C25_Witness ==
    /\ res.op = "deleteTask" /\ ~res.ok
    /\ res.in.id < taskSeq
    /\ \A k \in 1..Len(tasks) : tasks[k].id # res.in.id
    /\ Len(tasks) > 0

----------------------------------------------------------------------------
(* Properties of interleaved updateTask and deleteTask calls (SpecTaskRace) *)

\* the calls of a handler for a task id that have returned or thrown
Finished(op, id) ==
    {c \in Callers : calls[c].pc = "done" /\ calls[c].op = op /\ calls[c].in.id = id}

\* the deleteTask calls for a task id that returned success
Deleted(id) == {c \in Finished("deleteTask", id) : calls[c].r.ok}

\* C28: of the concurrent deleteTask calls of its owner for a task, at most
\* one returns success; every other one fails with the task-not-found
\* error.
C28_OneDeleteSucceeds ==
    \A id \in TaskIds :
        /\ Cardinality(Deleted(id)) <= 1
        /\ \A c \in Finished("deleteTask", id) \ Deleted(id) :
              calls[c].r.err = ErrDeleteDenied

\* C29: an updateTask that runs along a deleteTask for the same task returns
\* the updated task or fails with 'Task not found or access denied', with no
\* other error, and a deleted task is never in the store afterwards.
C29_UpdateOrDenied ==
    \A id \in TaskIds :
        /\ \A c \in Finished("updateTask", id) :
              \/ calls[c].r.ok /\ Len(calls[c].r.rows) = 1
              \/ ~calls[c].r.ok /\ calls[c].r.err = ErrUpdateDenied
        /\ Deleted(id) # {} => \A k \in 1..Len(tasks) : tasks[k].id # id

\* C29 with the third outcome: when the task is deleted between the select
\* and the update of updateTask, updateTask fails with 'Failed to update
\* task'.
C29_UpdateDeniedOrFailed ==
    \A id \in TaskIds :
        /\ \A c \in Finished("updateTask", id) :
              \/ /\ calls[c].r.ok
                 /\ Len(calls[c].r.rows) = 1
                 /\ calls[c].r.rows[1].id = id
                 /\ calls[c].r.rows[1].user_id = calls[c].as
              \/ ~calls[c].r.ok /\ calls[c].r.err = ErrUpdateDenied
              \/ /\ ~calls[c].r.ok /\ calls[c].r.err = ErrUpdateFailed
                 /\ \E d \in Deleted(id) : calls[d].as = calls[c].as
        /\ Deleted(id) # {} => \A k \in 1..Len(tasks) : tasks[k].id # id

\* an update found its task gone after its select
C29_Witness ==
    \E id \in TaskIds : \E c \in Finished("updateTask", id) :
        /\ calls[c].r.err = ErrUpdateFailed
        /\ Deleted(id) # {}

----------------------------------------------------------------------------
(* Properties of the comparisons (SpecCompare) *)

\* both presented values have the length of the expected one and both are
\* rejected
BothRejected ==
    /\ res.op # ""
    /\ Len(res.first) = Len(res.expected) /\ Len(res.second) = Len(res.expected)
    /\ ~res.r1.eq /\ ~res.r2.eq

\* C26: the work of rejecting a presented signature in verifyToken, or a
\* presented hash in verifyPassword, is the same however many leading
\* characters of it agree with the expected value.
C26_ConstantTime ==
    BothRejected => res.r1.examined = res.r2.examined

\* the part of C26 about verifyPassword alone
C26_HashConstantTime ==
    BothRejected /\ res.op = "verifyPassword" => res.r1.examined = res.r2.examined
====
